---- MODULE Spec2Model ----
(***************************************************************************)
(* The MP4 encoding sink of crates/media/src/encoders/mp4.rs and the       *)
(* pipeline tasks that drive it.                                           *)
(*                                                                         *)
(* MP4File::init is modelled stage by stage (container open, video         *)
(* factory, audio factory, header write).  The four PipelineSinkTask       *)
(* implementations are modelled as threads whose program counter walks     *)
(* through run() and finish(); the two Arc<Mutex<MP4File>> tasks take the  *)
(* mutex around every sink call.  Every call made on the container writer  *)
(* or on an encoder is appended to `output`, so that orderings and counts  *)
(* can be read off the state.                                              *)
(*                                                                         *)
(* RecordStart::run of apps/cli/src/record.rs is modelled statement by     *)
(* statement under its own specification, RecSpec; FairSpec adds the       *)
(* scheduling of the task threads to Spec.                                 *)
(***************************************************************************)
EXTENDS Naturals, Sequences, FiniteSets

\* Number of frames a producer may send into one channel.
MaxFrames == 2

\* Largest screen / window / camera id the command line or the host may name.
MaxId == 1

VARIABLES
    variant,      \* which PipelineSinkTask implementations drive the sink
    initPc,       \* position inside MP4File::init
    initResult,   \* "pending", "Ok", or the InitError variant returned
    failedStage,  \* the stage of init that failed ("none" if none did)
    fileExists,   \* the container file exists on disk
    output,       \* calls made on the container writer / encoders, in order
    audio,        \* MP4File.audio is Some(_)
    is_finished,  \* MP4File.is_finished
    chan,         \* per task: frames buffered in its flume channel
    closed,       \* per task: every sender of its channel has been dropped
    sent,         \* per task: number of items sent into its channel
    pc,           \* per task: position inside run() / finish()
    cur,          \* per task: the item received and not yet queued
    lock,         \* holder of the Mutex<MP4File>, or "free"
    ready,        \* per task: values sent on its ready signal
    dropped,      \* frames a queue_* call returned early on, in order
    finisher,     \* the task whose finish() call set is_finished, or "none"
    finishSnaps,  \* the sink's fields at the return of each finish() call
    args,         \* the RecordStart options given on the command line
    env,          \* the screens, windows and cameras the host enumerates
    rec           \* RecordStart::run: position, locals, calls made, result

vars == <<variant, initPc, initResult, failedStage, fileExists, output, audio,
          is_finished, chan, closed, sent, pc, cur, lock, ready, dropped,
          finisher, finishSnaps, args, env, rec>>

recVars == <<args, env, rec>>

initVars == <<initPc, initResult, failedStage, fileExists, audio>>
sinkVars == <<output, audio, is_finished>>
chanVars == <<chan, closed, sent>>

Tasks == {"video", "audio", "mux"}

Variants == {"shared", "combined", "videoOnly"}

\* The tasks a variant runs: the two Arc<Mutex<MP4File>> tasks, the one
\* MP4Input task, or the one FFVideo task on an owned MP4File.
ActiveTasks(v) ==
    CASE v = "shared"    -> {"video", "audio"}
      [] v = "combined"  -> {"mux"}
      [] v = "videoOnly" -> {"video"}

Shared == variant = "shared"

Ev(op, id) == [op |-> op, id |-> id]

NoItem == [video |-> 0, audio |-> 0]

----------------------------------------------------------------------------
(* MP4File::init                                                           *)

\* Fault variant of InitErrorOf: a header failure reported as VideoInit.
InitErrorOfHeaderAsVideo(stage) ==
    CASE stage = "open"   -> "Ffmpeg"
      [] stage = "video"  -> "VideoInit"
      [] stage = "audio"  -> "AudioInit"
      [] stage = "header" -> "VideoInit"

\* The error variant init returns for a failing stage.
InitErrorOf(stage) ==
    CASE stage = "open"   -> "Ffmpeg"
      [] stage = "video"  -> "VideoInit"
      [] stage = "audio"  -> "AudioInit"
      [] stage = "header" -> "Ffmpeg"

\* `?` on an Err: init returns the error, the locals are dropped.
InitFail(stage) ==
    /\ initPc' = "returned"
    /\ initResult' = InitErrorOf(stage)
    /\ failedStage' = stage

\* format::output(&output): creates the file and the container writer.
InitOpen ==
    /\ initPc = "open"
    /\ \E ok \in BOOLEAN :
        IF ok
        THEN /\ initPc' = "video"
             /\ fileExists' = TRUE
             /\ output' = Append(output, Ev("open", 0))
             /\ UNCHANGED <<initResult, failedStage>>
        ELSE /\ InitFail("open")
             /\ output' = Append(output, Ev("open_err", 0))
             /\ UNCHANGED fileExists
    /\ UNCHANGED <<recVars, variant, audio, is_finished, chanVars, pc, cur, lock,
                   ready, dropped, finisher, finishSnaps>>

\* Fault variant of InitVideo: a failed video registration is reported
\* only after the audio factory has been invoked as well.
InitVideoThenAudio ==
    /\ initPc = "video"
    /\ \E ok \in BOOLEAN :
        IF ok
        THEN /\ initPc' = "audio"
             /\ output' = Append(output, Ev("video_reg", 0))
             /\ UNCHANGED <<initResult, failedStage>>
        ELSE /\ InitFail("video")
             /\ output' = Append(Append(output, Ev("video_reg_err", 0)),
                                 Ev("audio_reg", 0))
    /\ UNCHANGED <<recVars, variant, fileExists, audio, is_finished, chanVars, pc, cur,
                   lock, ready, dropped, finisher, finishSnaps>>

\* video(&mut output): the mandatory video encoder registers its stream.
InitVideo ==
    /\ initPc = "video"
    /\ \E ok \in BOOLEAN :
        IF ok
        THEN /\ initPc' = "audio"
             /\ output' = Append(output, Ev("video_reg", 0))
             /\ UNCHANGED <<initResult, failedStage>>
        ELSE /\ InitFail("video")
             /\ output' = Append(output, Ev("video_reg_err", 0))
    /\ UNCHANGED <<recVars, variant, fileExists, audio, is_finished, chanVars, pc, cur,
                   lock, ready, dropped, finisher, finishSnaps>>

\* Fault variant of InitAudio: the header is written before the audio
\* factory is invoked.
InitAudioAfterHeader ==
    /\ initPc = "audio"
    /\ \E r \in {"None", "SomeOk", "SomeErr"} :
        CASE r = "None" ->
                /\ initPc' = "header"
                /\ audio' = FALSE
                /\ output' = Append(Append(output, Ev("header", 0)),
                                    Ev("audio_none", 0))
                /\ UNCHANGED <<initResult, failedStage>>
          [] r = "SomeOk" ->
                /\ initPc' = "header"
                /\ audio' = TRUE
                /\ output' = Append(Append(output, Ev("header", 0)),
                                    Ev("audio_reg", 0))
                /\ UNCHANGED <<initResult, failedStage>>
          [] r = "SomeErr" ->
                /\ InitFail("audio")
                /\ output' = Append(Append(output, Ev("header", 0)),
                                    Ev("audio_reg_err", 0))
                /\ UNCHANGED audio
    /\ UNCHANGED <<recVars, variant, fileExists, is_finished, chanVars, pc, cur, lock,
                   ready, dropped, finisher, finishSnaps>>

\* audio(&mut output).transpose(): None, Some(Ok(encoder)) or Some(Err(_)).
InitAudio ==
    /\ initPc = "audio"
    /\ \E r \in {"None", "SomeOk", "SomeErr"} :
        CASE r = "None" ->
                /\ initPc' = "header"
                /\ audio' = FALSE
                /\ output' = Append(output, Ev("audio_none", 0))
                /\ UNCHANGED <<initResult, failedStage>>
          [] r = "SomeOk" ->
                /\ initPc' = "header"
                /\ audio' = TRUE
                /\ output' = Append(output, Ev("audio_reg", 0))
                /\ UNCHANGED <<initResult, failedStage>>
          [] r = "SomeErr" ->
                /\ InitFail("audio")
                /\ output' = Append(output, Ev("audio_reg_err", 0))
                /\ UNCHANGED audio
    /\ UNCHANGED <<recVars, variant, fileExists, is_finished, chanVars, pc, cur, lock,
                   ready, dropped, finisher, finishSnaps>>

\* output.write_header(), then Ok(Self { .., is_finished: false }).
InitHeader ==
    /\ initPc = "header"
    /\ \E ok \in BOOLEAN :
        IF ok
        THEN /\ initPc' = "returned"
             /\ initResult' = "Ok"
             /\ output' = Append(output, Ev("header", 0))
             /\ is_finished' = FALSE
             /\ UNCHANGED failedStage
        ELSE /\ InitFail("header")
             /\ output' = Append(output, Ev("header_err", 0))
             /\ UNCHANGED is_finished
    /\ UNCHANGED <<recVars, variant, fileExists, audio, chanVars, pc, cur, lock, ready,
                   dropped, finisher, finishSnaps>>

----------------------------------------------------------------------------
(* Channels: the producing side                                            *)

\* The n-th item a producer sends into task t's channel: an FFVideo, an
\* FFAudio, or an MP4Input whose audio is None (0) or Some(frame n).
Items(t, n) ==
    CASE t = "video" -> {[video |-> n, audio |-> 0]}
      [] t = "audio" -> {[video |-> 0, audio |-> n]}
      [] t = "mux"   -> {[video |-> n, audio |-> a] : a \in {0, n}}

\* A capture source sends the next frame into the channel.
Send(t) ==
    /\ initResult = "Ok"
    /\ t \in ActiveTasks(variant)
    /\ ~closed[t]
    /\ sent[t] < MaxFrames
    /\ \E item \in Items(t, sent[t] + 1) :
        chan' = [chan EXCEPT ![t] = Append(@, item)]
    /\ sent' = [sent EXCEPT ![t] = @ + 1]
    /\ UNCHANGED <<recVars, variant, initVars, output, is_finished, closed, pc, cur,
                   lock, ready, dropped, finisher, finishSnaps>>

\* stop(): the sending side of the channel is dropped.
CloseChannel(t) ==
    /\ initResult = "Ok"
    /\ t \in ActiveTasks(variant)
    /\ ~closed[t]
    /\ closed' = [closed EXCEPT ![t] = TRUE]
    /\ UNCHANGED <<recVars, variant, initVars, output, is_finished, chan, sent, pc, cur,
                   lock, ready, dropped, finisher, finishSnaps>>

----------------------------------------------------------------------------
(* PipelineSinkTask::run                                                   *)

\* The first sink call of a loop iteration, and where the iteration goes
\* once its sink calls have returned (the MutexGuard is dropped at the end
\* of the loop body).
FirstCall(t) == IF t = "audio" THEN "qa" ELSE "qv"
AfterCalls == IF Shared THEN "unlock" ELSE "recv"

\* assert!(self.audio.is_none()) of the FFVideo task on an owned MP4File.
AssertPasses(t) == variant = "videoOnly" => ~audio

\* Entry of run(): the assertion (FFVideo on MP4File only), then
\* ready_signal.send(Ok(())).
Run(t) ==
    /\ initResult = "Ok"
    /\ t \in ActiveTasks(variant)
    /\ pc[t] = "idle"
    /\ IF AssertPasses(t)
       THEN /\ ready' = [ready EXCEPT ![t] = @ + 1]
            /\ pc' = [pc EXCEPT ![t] = "recv"]
       ELSE /\ pc' = [pc EXCEPT ![t] = "panicked"]
            /\ UNCHANGED ready
    /\ UNCHANGED <<recVars, variant, initVars, output, is_finished, chanVars, cur, lock,
                   dropped, finisher, finishSnaps>>

\* Fault variant of RecvFrame: the newest buffered item is received.
RecvNewestFrame(t) ==
    /\ pc[t] = "recv"
    /\ chan[t] # <<>>
    /\ cur' = [cur EXCEPT ![t] = chan[t][Len(chan[t])]]
    /\ chan' = [chan EXCEPT ![t] = SubSeq(@, 1, Len(@) - 1)]
    /\ pc' = [pc EXCEPT ![t] = IF Shared THEN "lock" ELSE FirstCall(t)]
    /\ UNCHANGED <<recVars, variant, initVars, output, is_finished, closed, sent, lock,
                   ready, dropped, finisher, finishSnaps>>

\* input.recv() returns Ok(frame): the oldest buffered item.
RecvFrame(t) ==
    /\ pc[t] = "recv"
    /\ chan[t] # <<>>
    /\ cur' = [cur EXCEPT ![t] = Head(chan[t])]
    /\ chan' = [chan EXCEPT ![t] = Tail(@)]
    /\ pc' = [pc EXCEPT ![t] = IF Shared THEN "lock" ELSE FirstCall(t)]
    /\ UNCHANGED <<recVars, variant, initVars, output, is_finished, closed, sent, lock,
                   ready, dropped, finisher, finishSnaps>>

\* input.recv() returns Err: the channel is empty and disconnected; run()
\* returns.
RecvClosed(t) ==
    /\ pc[t] = "recv"
    /\ chan[t] = <<>>
    /\ closed[t]
    /\ pc' = [pc EXCEPT ![t] = "exited"]
    /\ UNCHANGED <<recVars, variant, initVars, output, is_finished, chanVars, cur, lock,
                   ready, dropped, finisher, finishSnaps>>

\* Fault variant of LockFree: the mutex excludes nobody.
LockAlwaysFree == TRUE

\* Mutex::lock succeeds only when no other thread holds the mutex.
LockFree == lock = "free"

\* Fault variant of Lock: the run loop enters the sink call without
\* waiting for the mutex.
LockWithoutWaiting(t) ==
    /\ pc[t] = "lock"
    /\ lock' = t
    /\ pc' = [pc EXCEPT ![t] = FirstCall(t)]
    /\ UNCHANGED <<recVars, variant, initVars, output, is_finished, chanVars, cur,
                   ready, dropped, finisher, finishSnaps>>

\* let mut this = self.lock().unwrap();
Lock(t) ==
    /\ pc[t] = "lock"
    /\ LockFree
    /\ lock' = t
    /\ pc' = [pc EXCEPT ![t] = FirstCall(t)]
    /\ UNCHANGED <<recVars, variant, initVars, output, is_finished, chanVars, cur,
                   ready, dropped, finisher, finishSnaps>>

\* Fault variant of Unlock: the MutexGuard outlives the loop body and is
\* still held while the task waits on its channel.
UnlockKeepsLock(t) ==
    /\ pc[t] = "unlock"
    /\ pc' = [pc EXCEPT ![t] = "recv"]
    /\ UNCHANGED <<recVars, variant, initVars, output, is_finished, chanVars, cur,
                   lock, ready, dropped, finisher, finishSnaps>>

\* The MutexGuard `this` goes out of scope at the end of the loop body.
Unlock(t) ==
    /\ pc[t] = "unlock"
    /\ lock' = "free"
    /\ pc' = [pc EXCEPT ![t] = "recv"]
    /\ UNCHANGED <<recVars, variant, initVars, output, is_finished, chanVars, cur,
                   ready, dropped, finisher, finishSnaps>>

----------------------------------------------------------------------------
(* MP4File::queue_video_frame / queue_audio_frame                          *)

\* Fault variant of AfterVideo: the MP4Input task queues an audio frame for
\* every item, whether it carries one or not.
AfterVideoAlwaysAudio(t) ==
    IF t = "mux" THEN "qa" ELSE AfterCalls

\* Where the loop body goes after queue_video_frame: the MP4Input task
\* queues the item's audio frame when it carries one.
AfterVideo(t) ==
    IF t = "mux" /\ cur[t].audio # 0 THEN "qa" ELSE AfterCalls

\* Fault variant of VideoReturnsEarly: the is_finished test is missing.
VideoNeverReturnsEarly == FALSE

\* queue_video_frame returns early iff the sink is finished.
VideoReturnsEarly == is_finished

\* queue_video_frame: if self.is_finished { return; }
QueueVideoCheck(t) ==
    /\ pc[t] = "qv"
    /\ IF VideoReturnsEarly
       THEN /\ dropped' = Append(dropped, Ev("video", cur[t].video))
            /\ pc' = [pc EXCEPT ![t] = AfterVideo(t)]
       ELSE /\ pc' = [pc EXCEPT ![t] = "qv_enc"]
            /\ UNCHANGED dropped
    /\ UNCHANGED <<recVars, variant, initVars, output, is_finished, chanVars, cur, lock,
                   ready, finisher, finishSnaps>>

\* queue_video_frame: self.video.queue_frame(frame, &mut self.output);
QueueVideoEncode(t) ==
    /\ pc[t] = "qv_enc"
    /\ output' = Append(output, Ev("video", cur[t].video))
    /\ pc' = [pc EXCEPT ![t] = AfterVideo(t)]
    /\ UNCHANGED <<recVars, variant, initVars, is_finished, chanVars, cur, lock, ready,
                   dropped, finisher, finishSnaps>>

\* Fault variant of AudioReturnsEarly: the absent encoder is not tested.
AudioReturnsEarlyOnlyWhenFinished == is_finished

\* queue_audio_frame returns early iff the sink is finished or holds no
\* audio encoder.
AudioReturnsEarly == is_finished \/ ~audio

\* queue_audio_frame: if self.is_finished { return; }
\*                    let Some(audio) = &mut self.audio else { return; };
QueueAudioCheck(t) ==
    /\ pc[t] = "qa"
    /\ IF AudioReturnsEarly
       THEN /\ dropped' = Append(dropped, Ev("audio", cur[t].audio))
            /\ pc' = [pc EXCEPT ![t] = AfterCalls]
       ELSE /\ pc' = [pc EXCEPT ![t] = "qa_enc"]
            /\ UNCHANGED dropped
    /\ UNCHANGED <<recVars, variant, initVars, output, is_finished, chanVars, cur, lock,
                   ready, finisher, finishSnaps>>

\* queue_audio_frame: audio.queue_frame(frame, &mut self.output);
QueueAudioEncode(t) ==
    /\ pc[t] = "qa_enc"
    /\ output' = Append(output, Ev("audio", cur[t].audio))
    /\ pc' = [pc EXCEPT ![t] = AfterCalls]
    /\ UNCHANGED <<recVars, variant, initVars, is_finished, chanVars, cur, lock, ready,
                   dropped, finisher, finishSnaps>>

----------------------------------------------------------------------------
(* PipelineSinkTask::finish and MP4File::finish                            *)

\* The owner of a task invokes finish() once run() has returned.
OwnerInvokesFinish(t) == pc[t] = "exited"

\* PipelineSinkTask::finish is entered; the shared tasks first take the lock.
TaskFinish(t) ==
    /\ OwnerInvokesFinish(t)
    /\ pc' = [pc EXCEPT ![t] = IF Shared THEN "fin_lock" ELSE "fin_check"]
    /\ UNCHANGED <<recVars, variant, initVars, output, is_finished, chanVars, cur, lock,
                   ready, dropped, finisher, finishSnaps>>

\* Fault variant of FinLock: finish() is entered without waiting for the
\* mutex.
FinLockWithoutWaiting(t) ==
    /\ pc[t] = "fin_lock"
    /\ lock' = t
    /\ pc' = [pc EXCEPT ![t] = "fin_check"]
    /\ UNCHANGED <<recVars, variant, initVars, output, is_finished, chanVars, cur,
                   ready, dropped, finisher, finishSnaps>>

\* self.lock().unwrap() of PipelineSinkTask::finish.
FinLock(t) ==
    /\ pc[t] = "fin_lock"
    /\ LockFree
    /\ lock' = t
    /\ pc' = [pc EXCEPT ![t] = "fin_check"]
    /\ UNCHANGED <<recVars, variant, initVars, output, is_finished, chanVars, cur,
                   ready, dropped, finisher, finishSnaps>>

\* Where a finish() call goes when MP4File::finish returns: the shared
\* tasks drop the temporary MutexGuard.
FinReturn == IF Shared THEN "fin_unlock" ELSE "done"

Snapshot(out) == [output |-> out, audio |-> audio, is_finished |-> is_finished]

\* Fault variant of FinishReturnsEarly: the is_finished test is missing.
FinishNeverReturnsEarly == FALSE

\* Fault variant of FinishReturnsEarly: a finish() after a failed trailer
\* write goes through the flushes and the trailer again.
FinishRetriesFailedTrailer ==
    /\ is_finished
    /\ \A i \in 1..Len(output) : output[i].op # "trailer_err"

\* MP4File::finish returns early iff the sink is finished already.
FinishReturnsEarly == is_finished

\* finish: if self.is_finished { return; }
FinCheck(t) ==
    /\ pc[t] = "fin_check"
    /\ IF FinishReturnsEarly
       THEN /\ pc' = [pc EXCEPT ![t] = FinReturn]
            /\ finishSnaps' = Append(finishSnaps, Snapshot(output))
       ELSE /\ pc' = [pc EXCEPT ![t] = "fin_set"]
            /\ UNCHANGED finishSnaps
    /\ UNCHANGED <<recVars, variant, initVars, output, is_finished, chanVars, cur, lock,
                   ready, dropped, finisher>>

\* finish: self.is_finished = true;
FinSet(t) ==
    /\ pc[t] = "fin_set"
    /\ is_finished' = TRUE
    /\ finisher' = t
    /\ pc' = [pc EXCEPT ![t] = "fin_video"]
    /\ UNCHANGED <<recVars, variant, initVars, output, chanVars, cur, lock, ready,
                   dropped, finishSnaps>>

\* finish: self.video.finish(&mut self.output);
FinVideo(t) ==
    /\ pc[t] = "fin_video"
    /\ output' = Append(output, Ev("vflush", 0))
    /\ pc' = [pc EXCEPT ![t] = "fin_audio"]
    /\ UNCHANGED <<recVars, variant, initVars, is_finished, chanVars, cur, lock, ready,
                   dropped, finisher, finishSnaps>>

\* finish: if let Some(audio) = &mut self.audio { audio.finish(..) }
FinAudio(t) ==
    /\ pc[t] = "fin_audio"
    /\ output' = IF audio THEN Append(output, Ev("aflush", 0)) ELSE output
    /\ pc' = [pc EXCEPT ![t] = "fin_trailer"]
    /\ UNCHANGED <<recVars, variant, initVars, is_finished, chanVars, cur, lock, ready,
                   dropped, finisher, finishSnaps>>

\* finish: self.output.write_trailer(), whose error is only logged; then
\* finish returns.
FinTrailer(t) ==
    /\ pc[t] = "fin_trailer"
    /\ \E ok \in BOOLEAN :
        LET out == Append(output, Ev(IF ok THEN "trailer" ELSE "trailer_err", 0))
        IN  /\ output' = out
            /\ finishSnaps' = Append(finishSnaps, Snapshot(out))
    /\ pc' = [pc EXCEPT ![t] = FinReturn]
    /\ UNCHANGED <<recVars, variant, initVars, is_finished, chanVars, cur, lock, ready,
                   dropped, finisher>>

\* Fault variant of FinUnlock: the guard taken by finish() is never dropped.
FinUnlockKeepsLock(t) ==
    /\ pc[t] = "fin_unlock"
    /\ pc' = [pc EXCEPT ![t] = "done"]
    /\ UNCHANGED <<recVars, variant, initVars, output, is_finished, chanVars, cur,
                   lock, ready, dropped, finisher, finishSnaps>>

\* The temporary MutexGuard of PipelineSinkTask::finish is dropped.
FinUnlock(t) ==
    /\ pc[t] = "fin_unlock"
    /\ lock' = "free"
    /\ pc' = [pc EXCEPT ![t] = "done"]
    /\ UNCHANGED <<recVars, variant, initVars, output, is_finished, chanVars, cur,
                   ready, dropped, finisher, finishSnaps>>

----------------------------------------------------------------------------
(* RecordStart::run (apps/cli/src/record.rs)                               *)

\* An Option<u32> is the empty set (None) or a singleton (Some(id)).
Ids == 0..MaxId
OptionIds == {{}} \cup {{i} : i \in Ids}

\* The options clap can produce: --screen and --window belong to one
\* argument group, so at most one of them is given.
RecordStart ==
    {a \in [screen : OptionIds, window : OptionIds, camera : OptionIds,
            mic : {{}, {0}}, system_audio : BOOLEAN, path : BOOLEAN] :
        a.screen = {} \/ a.window = {}}

\* What list_screens(), list_windows() and nokhwa::query() enumerate.
Hosts == [screens : SUBSET Ids, windows : SUBSET Ids, cameras : SUBSET Ids]

\* run() before its first statement.
RecStart ==
    [pc |-> "resolve", target_info |-> [kind |-> "none", id |-> 0], camera |-> {}, id |-> "none",
     inputs |-> {}, result |-> "pending", calls |-> <<>>]

\* Fault variant of Find: the requested id is not compared.
FindAny(list, id) == {id}

\* list.into_iter().find(|s| s.0.id == id): the entry with that id, if any.
Find(list, id) == IF id \in list THEN {id} ELSE {}

\* The match of run(): Ok(ScreenCaptureTarget::Screen { id }) or
\* Ok(ScreenCaptureTarget::Window { id }), or the Err it fails with.
ResolveTarget ==
    IF args.screen # {}
    THEN LET id == CHOOSE i \in args.screen : TRUE
         IN  IF Find(env.screens, id) # {}
             THEN [ok |-> TRUE, kind |-> "Screen", id |-> id]
             ELSE [ok |-> FALSE, kind |-> "ScreenNotFound", id |-> id]
    ELSE IF args.window # {}
    THEN LET id == CHOOSE i \in args.window : TRUE
         IN  IF Find(env.windows, id) # {}
             THEN [ok |-> TRUE, kind |-> "Window", id |-> id]
             ELSE [ok |-> FALSE, kind |-> "WindowNotFound", id |-> id]
    ELSE [ok |-> FALSE, kind |-> "NoTargetSpecified", id |-> 0]

\* let (target_info, _) = match (..) { .. }?;
RecResolve ==
    /\ rec.pc = "resolve"
    /\ LET r == ResolveTarget
       IN  IF r.ok
           THEN rec' = [rec EXCEPT !.pc = "camera",
                                   !.target_info = [kind |-> r.kind, id |-> r.id]]
           ELSE rec' = [rec EXCEPT !.pc = "returned", !.result = r.kind]
    /\ UNCHANGED <<args, env, variant, initVars, sinkVars, chanVars, pc, cur,
                   lock, ready, dropped, finisher, finishSnaps>>

\* Fault variant of RecCamera: a camera index that is not enumerated fails
\* the start.
RecCameraStrict ==
    /\ rec.pc = "camera"
    /\ IF args.camera = {}
       THEN rec' = [rec EXCEPT !.pc = "session"]
       ELSE \E queryOk \in BOOLEAN :
            IF ~queryOk
            THEN rec' = [rec EXCEPT !.pc = "panicked",
                                    !.result = "PanicCameraQuery"]
            ELSE IF Find(env.cameras, CHOOSE i \in args.camera : TRUE) # {}
            THEN \E initOk \in BOOLEAN :
                 IF initOk
                 THEN rec' = [rec EXCEPT !.pc = "session",
                                         !.camera = args.camera,
                                         !.calls = Append(@, "camera_init")]
                 ELSE rec' = [rec EXCEPT !.pc = "panicked",
                                         !.result = "PanicCameraInit",
                                         !.calls = Append(@, "camera_init")]
            ELSE rec' = [rec EXCEPT !.pc = "returned",
                                    !.result = "CameraNotFound"]
    /\ UNCHANGED <<args, env, variant, initVars, sinkVars, chanVars, pc, cur,
                   lock, ready, dropped, finisher, finishSnaps>>

\* let camera = if let Some(camera_index) = self.camera { .. } else { None };
\* nokhwa::query(..).unwrap() and CameraFeed::init(..).await.unwrap() panic
\* on Err; an index that is not enumerated gives None.
RecCamera ==
    /\ rec.pc = "camera"
    /\ IF args.camera = {}
       THEN rec' = [rec EXCEPT !.pc = "session"]
       ELSE \E queryOk \in BOOLEAN :
            IF ~queryOk
            THEN rec' = [rec EXCEPT !.pc = "panicked",
                                    !.result = "PanicCameraQuery"]
            ELSE IF Find(env.cameras, CHOOSE i \in args.camera : TRUE) # {}
            THEN \E initOk \in BOOLEAN :
                 IF initOk
                 THEN rec' = [rec EXCEPT !.pc = "session",
                                         !.camera = args.camera,
                                         !.calls = Append(@, "camera_init")]
                 ELSE rec' = [rec EXCEPT !.pc = "panicked",
                                         !.result = "PanicCameraInit",
                                         !.calls = Append(@, "camera_init")]
            ELSE rec' = [rec EXCEPT !.pc = "session"]
    /\ UNCHANGED <<args, env, variant, initVars, sinkVars, chanVars, pc, cur,
                   lock, ready, dropped, finisher, finishSnaps>>

\* let id = Uuid::new_v4().to_string(); let path = self.path.unwrap_or_else(
\* || current_dir().unwrap().join(..)): current_dir() may fail only when no
\* path was given.
RecSession ==
    /\ rec.pc = "session"
    /\ \E cwdOk \in BOOLEAN :
        IF args.path \/ cwdOk
        THEN rec' = [rec EXCEPT !.pc = "spawn", !.id = "uuid",
                                !.calls = Append(@, "uuid")]
        ELSE rec' = [rec EXCEPT !.pc = "panicked", !.id = "uuid",
                                !.result = "PanicCurrentDir",
                                !.calls = Append(@, "uuid")]
    /\ UNCHANGED <<args, env, variant, initVars, sinkVars, chanVars, pc, cur,
                   lock, ready, dropped, finisher, finishSnaps>>

\* Fault variant of BaseInputs: the microphone option is forwarded.
BaseInputsWithMic ==
    [capture_target |-> rec.target_info,
     capture_system_audio |-> args.system_audio,
     mic_feed |-> args.mic,
     camera |-> rec.camera]

\* RecordingBaseInputs { capture_target, capture_system_audio, mic_feed:
\* &None } and the camera argument of spawn_studio_recording_actor.
BaseInputs ==
    [capture_target |-> rec.target_info,
     capture_system_audio |-> args.system_audio,
     mic_feed |-> {},
     camera |-> rec.camera]

\* A spawned recording actor builds its encoding sink, which creates the
\* output file.
ActorCreatesFile == TRUE

\* spawn_studio_recording_actor(..).await.map_err(|e| e.to_string())?
RecSpawn ==
    /\ rec.pc = "spawn"
    /\ \E ok \in BOOLEAN :
        IF ok
        THEN /\ rec' = [rec EXCEPT !.pc = "prompt", !.inputs = {BaseInputs},
                                   !.calls = Append(@, "spawn")]
             /\ fileExists' = ActorCreatesFile
        ELSE /\ rec' = [rec EXCEPT !.pc = "returned", !.inputs = {BaseInputs},
                                   !.result = "SpawnError",
                                   !.calls = Append(@, "spawn")]
             /\ UNCHANGED fileExists
    /\ UNCHANGED <<args, env, variant, initPc, initResult, failedStage, audio,
                   output, is_finished, chanVars, pc, cur, lock, ready,
                   dropped, finisher, finishSnaps>>

\* println!(..); BufReader::new(stdin()).read_line(..).await.unwrap();
RecPrompt ==
    /\ rec.pc = "prompt"
    /\ \E ok \in BOOLEAN :
        IF ok
        THEN rec' = [rec EXCEPT !.pc = "stop"]
        ELSE rec' = [rec EXCEPT !.pc = "panicked", !.result = "PanicReadLine"]
    /\ UNCHANGED <<args, env, variant, initVars, sinkVars, chanVars, pc, cur,
                   lock, ready, dropped, finisher, finishSnaps>>

\* actor.0.stop().await.unwrap(); Ok(())
RecStop ==
    /\ rec.pc = "stop"
    /\ \E ok \in BOOLEAN :
        IF ok
        THEN rec' = [rec EXCEPT !.pc = "returned", !.result = "Ok",
                                !.calls = Append(@, "stop")]
        ELSE rec' = [rec EXCEPT !.pc = "panicked", !.result = "PanicStop",
                                !.calls = Append(@, "stop")]
    /\ UNCHANGED <<args, env, variant, initVars, sinkVars, chanVars, pc, cur,
                   lock, ready, dropped, finisher, finishSnaps>>

----------------------------------------------------------------------------

Init ==
    /\ variant \in Variants
    /\ initPc = "open"
    /\ initResult = "pending"
    /\ failedStage = "none"
    /\ fileExists = FALSE
    /\ output = <<>>
    /\ audio = FALSE
    /\ is_finished = FALSE
    /\ chan = [t \in Tasks |-> <<>>]
    /\ closed = [t \in Tasks |-> FALSE]
    /\ sent = [t \in Tasks |-> 0]
    /\ pc = [t \in Tasks |-> "idle"]
    /\ cur = [t \in Tasks |-> NoItem]
    /\ lock = "free"
    /\ ready = [t \in Tasks |-> 0]
    /\ dropped = <<>>
    /\ finisher = "none"
    /\ finishSnaps = <<>>
    /\ args = [screen |-> {}, window |-> {}, camera |-> {}, mic |-> {},
               system_audio |-> FALSE, path |-> FALSE]
    /\ env = [screens |-> {}, windows |-> {}, cameras |-> {}]
    /\ rec = RecStart

Next ==
    \/ InitOpen
    \/ InitVideo
    \/ InitAudio
    \/ InitHeader
    \/ \E t \in Tasks : Send(t)
    \/ \E t \in Tasks : CloseChannel(t)
    \/ \E t \in Tasks : Run(t)
    \/ \E t \in Tasks : RecvFrame(t)
    \/ \E t \in Tasks : RecvClosed(t)
    \/ \E t \in Tasks : Lock(t)
    \/ \E t \in Tasks : Unlock(t)
    \/ \E t \in Tasks : QueueVideoCheck(t)
    \/ \E t \in Tasks : QueueVideoEncode(t)
    \/ \E t \in Tasks : QueueAudioCheck(t)
    \/ \E t \in Tasks : QueueAudioEncode(t)
    \/ \E t \in Tasks : TaskFinish(t)
    \/ \E t \in Tasks : FinLock(t)
    \/ \E t \in Tasks : FinCheck(t)
    \/ \E t \in Tasks : FinSet(t)
    \/ \E t \in Tasks : FinVideo(t)
    \/ \E t \in Tasks : FinAudio(t)
    \/ \E t \in Tasks : FinTrailer(t)
    \/ \E t \in Tasks : FinUnlock(t)

Spec == Init /\ [][Next]_vars

\* A step of task t's thread, from the first recv() of run() to the return
\* of finish().
TaskStep(t) ==
    \/ RecvFrame(t) \/ RecvClosed(t)
    \/ Lock(t) \/ Unlock(t)
    \/ QueueVideoCheck(t) \/ QueueVideoEncode(t)
    \/ QueueAudioCheck(t) \/ QueueAudioEncode(t)
    \/ TaskFinish(t) \/ FinLock(t)
    \/ FinCheck(t) \/ FinSet(t) \/ FinVideo(t) \/ FinAudio(t) \/ FinTrailer(t)
    \/ FinUnlock(t)

\* Every task runs on a thread of its own, which the scheduler does not
\* starve: a step it can take for good is eventually taken.  Producers and
\* stop() are under no such obligation.
FairSpec == Spec /\ \A t \in Tasks : WF_vars(TaskStep(t))

\* The command-line start: any options, any host, no sink built yet.
RecInit ==
    /\ variant = "shared"
    /\ initPc = "open"
    /\ initResult = "pending"
    /\ failedStage = "none"
    /\ fileExists = FALSE
    /\ output = <<>>
    /\ audio = FALSE
    /\ is_finished = FALSE
    /\ chan = [t \in Tasks |-> <<>>]
    /\ closed = [t \in Tasks |-> FALSE]
    /\ sent = [t \in Tasks |-> 0]
    /\ pc = [t \in Tasks |-> "idle"]
    /\ cur = [t \in Tasks |-> NoItem]
    /\ lock = "free"
    /\ ready = [t \in Tasks |-> 0]
    /\ dropped = <<>>
    /\ finisher = "none"
    /\ finishSnaps = <<>>
    /\ args \in RecordStart
    /\ env \in Hosts
    /\ rec = RecStart

RecNext ==
    \/ RecResolve
    \/ RecCamera
    \/ RecSession
    \/ RecSpawn
    \/ RecPrompt
    \/ RecStop

RecSpec == RecInit /\ [][RecNext]_vars

----------------------------------------------------------------------------
(* Reading the state                                                       *)

\* Positions of `output` at which call `op` was made.
Idx(op) == {i \in 1..Len(output) : output[i].op = op}

Count(op) == Cardinality(Idx(op))

IsFrame(e) == e.op \in {"video", "audio"}

\* The frames handed to the encoders, in order.
Frames(out) == SelectSeq(out, IsFrame)

\* Calls of write_trailer, whether they returned Ok or Err.
TrailerWrites == Count("trailer") + Count("trailer_err")

\* Uninitialized -> Open -> Finished.
SinkState ==
    IF initResult # "Ok" THEN "Uninitialized"
    ELSE IF is_finished THEN "Finished" ELSE "Open"

\* Every task of the variant has returned from finish().
AllDone ==
    /\ initResult = "Ok"
    /\ \A t \in ActiveTasks(variant) : pc[t] = "done"

\* Task t is inside queue_video_frame, queue_audio_frame or MP4File::finish.
InSinkCall(t) ==
    pc[t] \in {"qv", "qv_enc", "qa", "qa_enc",
               "fin_check", "fin_set", "fin_video", "fin_audio", "fin_trailer"}

InQueueAudio(t) == pc[t] \in {"qa", "qa_enc"}

----------------------------------------------------------------------------
(* Claims                                                                  *)

\* C1: init returns an Open sink only if the header was written, and written
\* strictly after the video registration and (when audio is requested) the
\* audio registration; no registration follows a header, and every frame
\* handed to an encoder comes after the header.
C1_HeaderAfterRegistrations ==
    /\ initResult = "Ok" =>
         /\ Count("header") = 1
         /\ Count("video_reg") = 1
         /\ audio => Count("audio_reg") = 1
    /\ \A h \in Idx("header") :
         \A r \in Idx("video_reg") \cup Idx("audio_reg") : r < h
    /\ \A f \in Idx("video") \cup Idx("audio") :
         \E h \in Idx("header") : h < f

\* An Open-then-used sink with both encoders: frames of both streams were
\* handed to the encoders.
C1_Witness ==
    /\ initResult = "Ok"
    /\ audio
    /\ Count("video") >= 1
    /\ Count("audio") >= 1

\* C2: the sink's fields (the calls made on writer and encoders, audio,
\* is_finished) at the return of every later finish() call equal those at
\* the return of the first one: a second finish() flushes nothing, writes
\* no trailer and changes no field.
C2_FinishIdempotent ==
    \A i \in 1..Len(finishSnaps) : finishSnaps[i] = finishSnaps[1]

\* finish() has returned twice on a sink that holds an audio encoder and
\* was handed frames.
C2_Witness ==
    /\ Len(finishSnaps) = 2
    /\ audio
    /\ Count("video") >= 1

\* C3: with the two tasks sharing the sink, write_trailer is called at most
\* once in every interleaving, exactly once when both tasks have returned
\* from finish(), and only by the finish() call that set is_finished, while
\* that call holds the mutex.
C3_TrailerOnce ==
    /\ [](Shared => /\ TrailerWrites <= 1
                    /\ AllDone => TrailerWrites = 1)
    /\ [][(Shared /\ TrailerWrites' # TrailerWrites) =>
            /\ TrailerWrites = 0
            /\ finisher \in Tasks
            /\ pc[finisher] = "fin_trailer"
            /\ pc'[finisher] = "fin_unlock"
            /\ lock = finisher
            /\ SinkState = "Finished"]_vars

\* Both shared tasks have called finish() and the trailer was written.
C3_Witness ==
    /\ Shared
    /\ AllDone
    /\ Len(finishSnaps) = 2
    /\ TrailerWrites = 1

\* C4: once is_finished is set, no step hands a frame to an encoder: the
\* frames in the output stay the same.
C4_NoFramesAfterFinish ==
    [][is_finished => Frames(output') = Frames(output)]_vars

\* A queue_* call was made on a finished sink that holds both encoders, and
\* returned early.
C4_Witness ==
    /\ SinkState = "Finished"
    /\ audio
    /\ Len(finishSnaps) >= 1
    /\ dropped # <<>>

\* C5: on a sink without audio encoder, no step of a queue_audio_frame call
\* changes the calls made on writer and encoders, audio or is_finished.
C5_AudioNoOpWithoutEncoder ==
    [][(/\ initResult = "Ok"
        /\ ~audio
        /\ \E t \in Tasks : InQueueAudio(t) /\ pc'[t] # pc[t])
       => UNCHANGED <<output, audio, is_finished>>]_vars

\* queue_audio_frame has returned on an Open sink without audio encoder.
C5_Witness ==
    /\ SinkState = "Open"
    /\ ~audio
    /\ \E i \in 1..Len(dropped) : dropped[i].op = "audio"

\* C6: at most one task is inside queue_video_frame, queue_audio_frame or
\* finish at a time, and in the shared variant that task holds the mutex.
C6_MutualExclusion ==
    /\ Cardinality({t \in Tasks : InSinkCall(t)}) <= 1
    /\ \A t \in Tasks : (Shared /\ InSinkCall(t)) => lock = t

\* The video task is inside queue_video_frame while the audio task waits
\* for the mutex with a frame in hand.
C6_Witness ==
    /\ pc["video"] = "qv_enc"
    /\ pc["audio"] = "lock"

\* C7: when both shared tasks have drained their channels and returned from
\* finish() and the trailer was committed, every frame sent was handed to
\* its encoder.
C7_NoFrameDropped ==
    (Shared /\ audio /\ AllDone /\ Count("trailer") = 1) =>
        /\ Count("video") = sent["video"]
        /\ Count("audio") = sent["audio"]

\* C8: within each stream, frames are handed to the encoder in the order
\* they were sent (frame n is the n-th sent into its channel).
C8_FifoPerStream ==
    \A op \in {"video", "audio"} :
        \A i, j \in Idx(op) : i < j => output[i].id < output[j].id

\* Two video frames were encoded with an audio frame between them.
C8_Witness ==
    \E i, j, k \in 1..Len(output) :
        /\ i < j /\ j < k
        /\ output[i] = Ev("video", 1)
        /\ output[j].op = "audio"
        /\ output[k] = Ev("video", 2)

\* C9: a failed init returns the variant of the failing stage (container
\* open or header write: Ffmpeg, video factory: VideoInit, audio factory:
\* AudioInit); no sink exists, so no task runs and no frame is encoded.
C9_InitErrorIdentifiesStage ==
    failedStage # "none" =>
        /\ initPc = "returned"
        /\ failedStage \in {"open", "header"} => initResult = "Ffmpeg"
        /\ failedStage = "video" => initResult = "VideoInit"
        /\ failedStage = "audio" => initResult = "AudioInit"
        /\ SinkState = "Uninitialized"
        /\ \A t \in Tasks : pc[t] = "idle"
        /\ Frames(output) = <<>>

\* init failed at its last stage, the header write.
C9_Witness ==
    /\ failedStage = "header"
    /\ initPc = "returned"

\* C10: once init has returned an error, the container file does not exist.
C10_NoFileAfterFailedInit ==
    (initPc = "returned" /\ initResult # "Ok") => ~fileExists

\* The calls init has made on the writer and the factories: the calls of
\* `output` up to the first frame, flush or trailer.
InitCalls ==
    LET later == {i \in 1..Len(output) :
                    output[i].op \in {"video", "audio", "vflush", "aflush",
                                      "trailer", "trailer_err"}}
    IN  IF later = {} THEN output
        ELSE SubSeq(output, 1, (CHOOSE i \in later : \A j \in later : i <= j) - 1)

\* C17: init attempts container open, video factory, audio factory and
\* header write in this order and stops at the first failure: after a
\* failure the calls made are exactly the stages up to the failing one.
C17_InitStagesInOrder ==
    LET audioCall == IF audio THEN "audio_reg" ELSE "audio_none"
    IN  /\ failedStage = "open" => InitCalls = <<Ev("open_err", 0)>>
        /\ failedStage = "video" =>
             InitCalls = <<Ev("open", 0), Ev("video_reg_err", 0)>>
        /\ failedStage = "audio" =>
             InitCalls = <<Ev("open", 0), Ev("video_reg", 0),
                           Ev("audio_reg_err", 0)>>
        /\ failedStage = "header" =>
             InitCalls = <<Ev("open", 0), Ev("video_reg", 0),
                           Ev(audioCall, 0), Ev("header_err", 0)>>
        /\ initResult = "Ok" =>
             InitCalls = <<Ev("open", 0), Ev("video_reg", 0),
                           Ev(audioCall, 0), Ev("header", 0)>>
        /\ failedStage # "none" => output = InitCalls

\* init failed at the audio factory, after the video registration.
C17_Witness ==
    /\ failedStage = "audio"
    /\ initPc = "returned"
    /\ Len(output) = 3

\* C12 as stated: every run() that has been entered has sent exactly one
\* ready value, and no item is received before it.
C12_OneReadySignal ==
    \A t \in Tasks :
        /\ pc[t] # "idle" => ready[t] = 1
        /\ ready[t] = 0 => cur[t] = NoItem

\* Task t is past the is_finished test of the finish() call that finishes
\* the sink.
InFirstFinish(t) == pc[t] \in {"fin_set", "fin_video", "fin_audio", "fin_trailer"}

\* C13: the finishing call flushes the video encoder, then the audio
\* encoder if there is one, then writes the trailer, these calls follow one
\* another directly in `output`, no frame is handed to an encoder after the
\* video flush, and while a task is inside these steps no other task is
\* inside a sink call.
C13_FinishOrder ==
    /\ \A i \in Idx("aflush") : i > 1 /\ output[i - 1].op = "vflush"
    /\ \A i \in Idx("trailer") \cup Idx("trailer_err") :
         /\ i > 1
         /\ output[i - 1].op = IF audio THEN "aflush" ELSE "vflush"
    /\ \A v \in Idx("vflush") : \A f \in Idx("video") \cup Idx("audio") : f < v
    /\ \A t \in Tasks :
         InFirstFinish(t) => \A u \in Tasks \ {t} : ~InSinkCall(u)

\* The video task is about to write the trailer, both flushes done, while
\* the audio task waits for the mutex with a frame in hand.
C13_Witness ==
    /\ audio
    /\ pc["video"] = "fin_trailer"
    /\ pc["audio"] = "lock"
    /\ Count("aflush") = 1

TrailerFailed == Count("trailer_err") >= 1

\* C14: after write_trailer has failed, the finishing call has returned like
\* any other (the sink is Finished, the trailer was attempted once), and no
\* later step -- a further finish() or a queue_* call -- changes the calls
\* made on writer and encoders, audio or is_finished.
C14_TrailerFailureIsFinal ==
    /\ [](TrailerFailed =>
            /\ SinkState = "Finished"
            /\ TrailerWrites = 1
            /\ pc[finisher] \in {"fin_unlock", "done"})
    /\ [][TrailerFailed => UNCHANGED <<output, audio, is_finished>>]_vars

\* After a failed trailer write a queue_* call returned early and a second
\* finish() returned.
C14_Witness ==
    /\ TrailerFailed
    /\ AllDone
    /\ Len(finishSnaps) = 2
    /\ dropped # <<>>

\* A step the holder of the mutex can take.
HolderStep(t) ==
    \/ QueueVideoCheck(t) \/ QueueVideoEncode(t)
    \/ QueueAudioCheck(t) \/ QueueAudioEncode(t)
    \/ Unlock(t)
    \/ FinCheck(t) \/ FinSet(t) \/ FinVideo(t) \/ FinAudio(t) \/ FinTrailer(t)
    \/ FinUnlock(t)

\* C18: a task that waits on its channel (or has not locked yet) does not
\* hold the mutex, and whoever holds it is inside a sink call or about to
\* drop the guard and can take its next step, whatever the channels hold.
C18_NoLockWhileReceiving ==
    /\ \A t \in Tasks :
         pc[t] \in {"idle", "recv", "lock", "exited", "fin_lock", "done",
                    "panicked"} => lock # t
    /\ lock \in Tasks =>
         /\ InSinkCall(lock) \/ pc[lock] \in {"unlock", "fin_unlock"}
         /\ ENABLED HolderStep(lock)

\* The audio task is blocked on its empty, open channel while the video
\* task is inside queue_video_frame.
C18_Witness ==
    /\ pc["audio"] = "recv"
    /\ chan["audio"] = <<>>
    /\ ~closed["audio"]
    /\ pc["video"] = "qv_enc"
    /\ lock = "video"

\* C19: in the MP4Input task the encoder calls are v1,[a1],v2,[a2],...: the
\* video frames are numbered in channel order, an audio frame directly
\* follows the video frame of its item, an item without audio adds no audio
\* call, and an item is received only when the previous one is queued.
C19_CombinedOrder ==
    variant = "combined" =>
        LET F == Frames(output)
            item == cur["mux"]
            at == pc["mux"]
            videos(i) == Cardinality({j \in 1..i : F[j].op = "video"})
        IN  /\ \A i \in 1..Len(F) : F[i].op = "video" => F[i].id = videos(i)
            /\ \A i \in 1..Len(F) :
                 F[i].op = "audio" => i > 1 /\ F[i - 1] = Ev("video", F[i].id)
            /\ at \in {"qv", "qv_enc"} => videos(Len(F)) = item.video - 1
            /\ at \in {"qa", "qa_enc"} =>
                 /\ item.audio = item.video
                 /\ F[Len(F)] = Ev("video", item.video)
            /\ (at \in {"recv", "exited", "fin_check"} /\ item # NoItem) =>
                 IF item.audio # 0 /\ audio
                 THEN /\ Len(F) >= 2
                      /\ F[Len(F)] = Ev("audio", item.audio)
                      /\ F[Len(F) - 1] = Ev("video", item.video)
                 ELSE F[Len(F)] = Ev("video", item.video)

\* The MP4Input task has queued an item with audio and then one without.
C19_Witness ==
    /\ variant = "combined"
    /\ pc["mux"] = "recv"
    /\ cur["mux"] = [video |-> 2, audio |-> 0]
    /\ Frames(output) = <<Ev("video", 1), Ev("audio", 1), Ev("video", 2)>>

\* Frames of stream `op` that a queue_* call returned early on.
DroppedCount(op) == Cardinality({i \in 1..Len(dropped) : dropped[i].op = op})

\* Items sent into the channel that carries the video frames.
VideoSent == IF variant = "combined" THEN sent["mux"] ELSE sent["video"]

\* Every channel of the session is closed and every task has sent its
\* ready signal, that is, has entered its consume loop.
ShutdownRequested ==
    /\ initResult = "Ok"
    /\ \A t \in ActiveTasks(variant) : closed[t] /\ ready[t] = 1

\* Every task has drained its channel, queued what it received, left its
\* loop and returned from finish(); the sink is Finished, trailer written.
ShutdownComplete ==
    /\ AllDone
    /\ \A t \in Tasks : chan[t] = <<>>
    /\ Count("video") + DroppedCount("video") = VideoSent
    /\ Shared => Count("audio") + DroppedCount("audio") = sent["audio"]
    /\ SinkState = "Finished"
    /\ TrailerWrites = 1

\* C15: under fair scheduling of the task threads, once every channel is
\* closed the tasks eventually consume what is buffered, leave their loops
\* and return from finish(), and the sink is Finished with the trailer
\* written; no task stays blocked.
C15_ShutdownTerminates == ShutdownRequested ~> ShutdownComplete

\* The shared tasks have shut down after frames of both streams were sent.
C15_Witness ==
    /\ Shared
    /\ ShutdownComplete
    /\ sent["video"] >= 1
    /\ sent["audio"] >= 1

----------------------------------------------------------------------------
(* Claims about RecordStart::run, under RecSpec                            *)

Called(c) == \E i \in 1..Len(rec.calls) : rec.calls[i] = c

\* The requested screen (or, without one, window) id is not enumerated.
Unresolvable ==
    \/ args.screen # {} /\ args.screen \cap env.screens = {}
    \/ args.screen = {} /\ args.window # {} /\ args.window \cap env.windows = {}

Resolvable ==
    \/ args.screen # {} /\ args.screen \subseteq env.screens
    \/ args.screen = {} /\ args.window # {} /\ args.window \subseteq env.windows

\* A camera index was requested, the enumeration succeeded and does not
\* hold that index.
CameraMissing ==
    /\ args.camera # {}
    /\ args.camera \cap env.cameras = {}
    /\ rec.result # "PanicCameraQuery"

\* C11: with an id that matches no enumerated target, run() returns the
\* not-found error of the target kind and no later step has run: no camera
\* opened, no session id, no actor spawned, no file created, no stop().
C11_UnresolvedTargetFailsFirst ==
    Unresolvable =>
        /\ rec.pc \in {"resolve", "returned"}
        /\ rec.pc = "returned" =>
             rec.result = IF args.screen # {} THEN "ScreenNotFound"
                          ELSE "WindowNotFound"
        /\ rec.camera = {}
        /\ rec.id = "none"
        /\ rec.inputs = {}
        /\ rec.calls = <<>>
        /\ ~fileExists

\* run() has returned on an unresolvable target although a camera that
\* exists was requested.
C11_Witness ==
    /\ Unresolvable
    /\ rec.pc = "returned"
    /\ args.camera # {}
    /\ args.camera \subseteq env.cameras

\* C16 as stated: with a requested camera index that is not enumerated and
\* a resolvable target, a run() that returns has reached stop().
C16_MissingCameraReachesStop ==
    (CameraMissing /\ Resolvable /\ rec.pc = "returned") =>
        /\ rec.result = "Ok"
        /\ Called("stop")

\* C16 amended: with a requested camera index that is not enumerated and a
\* resolvable target, the camera step neither fails nor opens a camera, the
\* actor is spawned for the resolved target without camera, run() returns
\* only Ok or the spawn error, and a run() that returns Ok has called
\* stop() after the spawn.
C16_MissingCameraIsLenient ==
    (CameraMissing /\ Resolvable) =>
        /\ rec.camera = {}
        /\ ~Called("camera_init")
        /\ rec.pc = "returned" => rec.result \in {"Ok", "SpawnError"}
        /\ rec.pc \in {"prompt", "stop", "returned"} =>
             /\ Called("spawn")
             /\ \A i \in rec.inputs :
                  /\ i.camera = {}
                  /\ i.capture_target.kind = ResolveTarget.kind
                  /\ {i.capture_target.id} = args.screen \cup args.window
        /\ rec.result = "Ok" => rec.calls = <<"uuid", "spawn", "stop">>

\* run() returned Ok although the requested camera index is not enumerated.
C16_Witness ==
    /\ CameraMissing
    /\ Resolvable
    /\ rec.result = "Ok"

====
